---- MODULE Spec2Model ----
(***************************************************************************)
(* Model of HSTB/drivers/caris_finder.py: the search of the Windows        *)
(* registry for installed CARIS versions (caris_command_finder) and its    *)
(* four wrappers.  The registry and the file system are the environment;   *)
(* a call is followed statement by statement: ConnectRegistry, one loop    *)
(* iteration per accepted version, the return, the wrapper's check.        *)
(***************************************************************************)
EXTENDS Integers, Sequences, FiniteSets, TLC

(***************************************************************************)
(* Bounds of the model.                                                    *)
(***************************************************************************)
\* the largest number of registry keys the environment registers
MaxInstalled == 2
\* the longest accepted_versions list passed directly to caris_command_finder
MaxLen == 2

(***************************************************************************)
(* Module constants, lines 4-7.                                            *)
(***************************************************************************)
HIPS_NAME == "HIPS"

HIPS_VERSIONS == <<"12.0", "11.4", "11.3", "11.2", "11.1", "10.4", "10.3", "10.2">>

BASE_EDITOR_NAME == "BASE Editor"

BASE_EDITOR_VERSIONS == <<"6.1", "5.5", "5.4", "5.3", "5.2", "5.1", "4.4", "4.3", "4.2">>

(***************************************************************************)
(* Python values.  A value carries its type, as Python's does: a str, a    *)
(* float (m * 10^k, m not a multiple of 10 unless it is 0), an int, a      *)
(* bytes object (written by the string it decodes to), a list or a tuple   *)
(* of values.                                                              *)
(***************************************************************************)
PyStr(s) == [type |-> "str", s |-> s]
PyInt(n) == [type |-> "int", n |-> n]
PyBytes(s) == [type |-> "bytes", s |-> s]
PyFloat(m, k) == [type |-> "float", m |-> m, k |-> k]
PyList(xs) == [type |-> "list", items |-> xs]
PyTuple(xs) == [type |-> "tuple", items |-> xs]

\* Python's truth value of a str, a float, a list or a tuple (the `not x` tests)
Truthy(x) ==
    CASE x.type \in {"str", "bytes"} -> x.s # ""
      [] x.type = "float" -> x.m # 0
      [] x.type = "int" -> x.n # 0
      [] OTHER -> Len(x.items) > 0

(***************************************************************************)
(* Version strings.  TLC cannot index a string, so the characters of every *)
(* version string the model passes around are tabulated.  Beside the two   *)
(* hard-coded lists: a version with two decimal points and one with a      *)
(* non-numeric segment.                                                    *)
(***************************************************************************)
Chars ==
    [s \in {"12.0", "11.4", "11.3", "11.2", "11.1", "10.4", "10.3", "10.2",
            "6.1", "5.5", "5.4", "5.3", "5.2", "5.1", "4.4", "4.3", "4.2",
            "11.4.1", "11.x", ""} |->
        CASE s = "12.0" -> <<"1", "2", ".", "0">>
          [] s = "11.4" -> <<"1", "1", ".", "4">>
          [] s = "11.3" -> <<"1", "1", ".", "3">>
          [] s = "11.2" -> <<"1", "1", ".", "2">>
          [] s = "11.1" -> <<"1", "1", ".", "1">>
          [] s = "10.4" -> <<"1", "0", ".", "4">>
          [] s = "10.3" -> <<"1", "0", ".", "3">>
          [] s = "10.2" -> <<"1", "0", ".", "2">>
          [] s = "6.1" -> <<"6", ".", "1">>
          [] s = "5.5" -> <<"5", ".", "5">>
          [] s = "5.4" -> <<"5", ".", "4">>
          [] s = "5.3" -> <<"5", ".", "3">>
          [] s = "5.2" -> <<"5", ".", "2">>
          [] s = "5.1" -> <<"5", ".", "1">>
          [] s = "4.4" -> <<"4", ".", "4">>
          [] s = "4.3" -> <<"4", ".", "3">>
          [] s = "4.2" -> <<"4", ".", "2">>
          [] s = "11.4.1" -> <<"1", "1", ".", "4", ".", "1">>
          [] s = "11.x" -> <<"1", "1", ".", "x">>
          [] OTHER -> <<>>]

Digits == {"0", "1", "2", "3", "4", "5", "6", "7", "8", "9"}

DigitVal(c) ==
    CASE c = "0" -> 0 [] c = "1" -> 1 [] c = "2" -> 2 [] c = "3" -> 3
      [] c = "4" -> 4 [] c = "5" -> 5 [] c = "6" -> 6 [] c = "7" -> 7
      [] c = "8" -> 8 [] c = "9" -> 9

DigitChar(d) ==
    CASE d = 0 -> "0" [] d = 1 -> "1" [] d = 2 -> "2" [] d = 3 -> "3"
      [] d = 4 -> "4" [] d = 5 -> "5" [] d = 6 -> "6" [] d = 7 -> "7"
      [] d = 8 -> "8" [] d = 9 -> "9"

RECURSIVE DigitsValue(_)
\* the number a run of decimal digits writes
DigitsValue(ds) ==
    IF ds = <<>> THEN 0
    ELSE 10 * DigitsValue(SubSeq(ds, 1, Len(ds) - 1)) + DigitVal(ds[Len(ds)])

AllDigits(ds) == \A i \in 1..Len(ds) : ds[i] \in Digits

RECURSIVE Pow10(_)
Pow10(n) == IF n <= 0 THEN 1 ELSE 10 * Pow10(n - 1)

RECURSIVE Normalize(_, _)
\* m * 10^k with the trailing zeros of m moved into k: one record per number
Normalize(m, k) ==
    IF m = 0 THEN PyFloat(0, 0)
    ELSE IF m % 10 = 0 THEN Normalize(m \div 10, k + 1)
    ELSE PyFloat(m, k)

\* the error float() raises on a string that is no float literal
ValueError == [type |-> "ValueError"]

\* an unsigned decimal mantissa: digits with at most one point, a digit somewhere
MantissaOK(cs) ==
    LET dots == {i \in 1..Len(cs) : cs[i] = "."}
    IN  /\ Cardinality(dots) <= 1
        /\ \A i \in 1..Len(cs) : cs[i] \in Digits \cup {"."}
        /\ \E i \in 1..Len(cs) : cs[i] \in Digits

MantissaValue(cs) ==
    LET dots == {i \in 1..Len(cs) : cs[i] = "."}
        d == IF dots = {} THEN Len(cs) + 1 ELSE CHOOSE i \in dots : TRUE
        ip == SubSeq(cs, 1, d - 1)
        fp == SubSeq(cs, d + 1, Len(cs))
    IN  [m |-> DigitsValue(ip \o fp), k |-> 0 - Len(fp)]

\* float() applied to the characters cs: digits, ".", a sign and an exponent
\* mark make a float literal; any other character makes it a ValueError (no
\* white space, "_", inf or nan occurs in the strings of the model)
ParseFloat(cs) ==
    LET signed == Len(cs) > 0 /\ cs[1] \in {"+", "-"}
        body == IF signed THEN SubSeq(cs, 2, Len(cs)) ELSE cs
        sgn == IF signed /\ cs[1] = "-" THEN 0 - 1 ELSE 1
        es == {i \in 1..Len(body) : body[i] \in {"e", "E"}}
        e == IF es = {} THEN Len(body) + 1
             ELSE CHOOSE i \in es : \A j \in es : i <= j
        mant == SubSeq(body, 1, e - 1)
        ex == SubSeq(body, e + 1, Len(body))
        exSigned == Len(ex) > 0 /\ ex[1] \in {"+", "-"}
        exDigits == IF exSigned THEN SubSeq(ex, 2, Len(ex)) ELSE ex
        exOK == es = {} \/ (Len(exDigits) > 0 /\ AllDigits(exDigits))
        exVal == IF es = {} THEN 0
                 ELSE IF exSigned /\ ex[1] = "-" THEN 0 - DigitsValue(exDigits)
                 ELSE DigitsValue(exDigits)
    IN  IF MantissaOK(mant) /\ exOK
        THEN Normalize(sgn * MantissaValue(mant).m, MantissaValue(mant).k + exVal)
        ELSE ValueError

\* float() of every version string of the model, computed once
FloatOf == [s \in DOMAIN Chars |-> ParseFloat(Chars[s])]

\* float(s), line 71
float(s) == FloatOf[s]

\* a < b for two floats
FloatLess(a, b) ==
    LET lo == IF a.k < b.k THEN a.k ELSE b.k
    IN  a.m * Pow10(a.k - lo) < b.m * Pow10(b.k - lo)

RECURSIVE NatStr(_)
\* str(n) for a natural number
NatStr(n) == IF n < 10 THEN DigitChar(n) ELSE NatStr(n \div 10) \o DigitChar(n % 10)

RECURSIVE Zeros(_)
Zeros(n) == IF n <= 0 THEN "" ELSE "0" \o Zeros(n - 1)

\* str(x) for a float in the range Python writes without an exponent
FloatStr(x) ==
    LET neg == x.m < 0
        a == IF neg THEN 0 - x.m ELSE x.m
        scale == Pow10(0 - x.k)
        frac == a % scale
        body == IF x.k >= 0 THEN NatStr(a * Pow10(x.k)) \o ".0"
                ELSE NatStr(a \div scale) \o "."
                     \o Zeros((0 - x.k) - Len(NatStr(frac))) \o NatStr(frac)
    IN  IF neg THEN "-" \o body ELSE body

\* str(x), and "{}".format(x), of a str or a float
str(x) == IF x.type = "str" THEN x.s ELSE FloatStr(x)

(***************************************************************************)
(* The environment: the registry of the local machine and the file system. *)
(* A registry node is either closed to the caller (access denied) or open, *)
(* with or without an install_dir value; the value is of the Python type   *)
(* of its registry type (str for REG_SZ, int for REG_DWORD, bytes for      *)
(* REG_BINARY).  A key that is not in the registry is not in the domain of *)
(* reg.                                                                    *)
(***************************************************************************)
VARIABLES store_up, reg, fs

\* os.sep on the platform that has winreg
os_sep == "\\"

RECURSIVE sep_join(_, _)
\* sep.join(parts)
sep_join(sep, parts) ==
    IF Len(parts) = 0 THEN ""
    ELSE IF Len(parts) = 1 THEN parts[1]
    ELSE parts[1] \o sep \o sep_join(sep, Tail(parts))

RECURSIVE JoinNames(_)
\* the join of path components none of which is absolute, carries a drive
\* or ends in a separator (the install directories, sub-directories and
\* executable names of the model are of this kind)
JoinNames(parts) ==
    IF Len(parts) = 0 THEN ""
    ELSE IF Len(parts) = 1 THEN parts[1]
    ELSE LET head == JoinNames(SubSeq(parts, 1, Len(parts) - 1))
             last == parts[Len(parts)]
         IN  IF head = "" THEN last ELSE head \o os_sep \o last

\* the error os.path.join raises on a component that is no str or bytes, and
\* on str and bytes components together
TypeError == [type |-> "TypeError"]

\* os.path.join(*parts): all str gives a str, all bytes gives bytes
os_path_join(parts) ==
    LET names == [i \in 1..Len(parts) |-> parts[i].s]
    IN  IF \A i \in 1..Len(parts) : parts[i].type = "str" THEN PyStr(JoinNames(names))
        ELSE IF \A i \in 1..Len(parts) : parts[i].type = "bytes"
        THEN PyBytes(JoinNames(names))
        ELSE TypeError

\* os.path.exists(path), path a str or bytes
os_path_exists(files, path) == path.s \in files

WindowsError == [type |-> "WindowsError"]

\* the key path line 65 builds
KeyPath(app_key, vHIPS) ==
    sep_join(os_sep, <<"SOFTWARE", "CARIS", app_key, vHIPS, "Environment Variables">>)

\* a connection whose failure is swallowed
ConnectRegistry_never_fails(up) == [type |-> "HKEY", path |-> "HKEY_LOCAL_MACHINE"]

\* ConnectRegistry(None, HKEY_LOCAL_MACHINE): a handle, or the OSError winreg raises
ConnectRegistry(up) ==
    IF up THEN [type |-> "HKEY", path |-> "HKEY_LOCAL_MACHINE"]
    ELSE [type |-> "OSError"]

\* OpenKey(regHKLM, path): a handle on the node, or WindowsError when the key
\* is missing or access to it is denied
OpenKey(registry, path) ==
    IF path \notin DOMAIN registry THEN WindowsError
    ELSE IF registry[path].denied THEN WindowsError
    ELSE [type |-> "HKEY", path |-> path]

\* QueryValueEx(kBDB, "install_dir")[0]: the value, in the Python type of its
\* registry type, or WindowsError when the node has no such value
QueryValueEx(registry, key, name) ==
    IF name = "install_dir" /\ registry[key.path].has_install_dir
    THEN registry[key.path].install_dir
    ELSE WindowsError

(***************************************************************************)
(* The call in progress: the public function called (op) with its argument *)
(* (arg), the parameters and locals of caris_command_finder, its return    *)
(* value (ret) and the outcome the caller of op sees.  probed and seen     *)
(* record what the call has looked at: the versions whose key it tried to  *)
(* open, and the paths it built that were on disk in the iteration that    *)
(* built them.                                                             *)
(***************************************************************************)
VARIABLES pc, op, arg, exe_name, accepted_versions, app_key, get_all_versions,
          subdir, versions, idx, ret, outcome, probed, seen

env == <<store_up, reg, fs>>
frame == <<exe_name, accepted_versions, app_key, get_all_versions, subdir>>
vars == <<store_up, reg, fs, pc, op, arg, exe_name, accepted_versions, app_key,
          get_all_versions, subdir, versions, idx, ret, outcome, probed, seen>>

None == PyStr("None")
NoOutcome == [kind |-> "none", value |-> None, exc |-> "", msg |-> ""]
Returned(v) == [kind |-> "return", value |-> v, exc |-> "", msg |-> ""]
Raised(exc, msg) == [kind |-> "raise", value |-> None, exc |-> exc, msg |-> msg]

(***************************************************************************)
(* The body of the loop, lines 64-76, for one version: what it does to     *)
(* the loop ("continue", "append", or "raise" for an exception the except  *)
(* clause does not name), the entry it appends and the path it built.      *)
(***************************************************************************)
Continue(path) == [kind |-> "continue", entry |-> None, path |-> path, exc |-> ""]

Propagate(exc, path) == [kind |-> "raise", entry |-> None, path |-> path, exc |-> exc]

AppendEntry(batch_engine, vers) ==
    [kind |-> "append", entry |-> PyList(<<batch_engine, vers>>),
     path |-> batch_engine.s, exc |-> ""]

\* a loop body that appends without asking whether the executable exists
LoopBody_no_exists_check(registry, files, exe, app, vHIPS, sd) ==
    LET kBDB == OpenKey(registry, KeyPath(app, vHIPS))
        p2hipsinst == QueryValueEx(registry, kBDB, "install_dir")
        batch_engine == os_path_join(<<p2hipsinst, PyStr(sd), PyStr(exe)>>)
        vers == float(vHIPS)
    IN  IF kBDB = WindowsError THEN Continue("")
        ELSE IF p2hipsinst = WindowsError THEN Continue("")
        ELSE IF batch_engine = TypeError THEN Propagate("TypeError", "")
        ELSE IF vers = ValueError THEN Propagate("ValueError", batch_engine.s)
        ELSE AppendEntry(batch_engine, vers)

\* lines 64-76
LoopBody(registry, files, exe, app, vHIPS, sd) ==
    LET kBDB == OpenKey(registry, KeyPath(app, vHIPS))
        p2hipsinst == QueryValueEx(registry, kBDB, "install_dir")
        batch_engine == os_path_join(<<p2hipsinst, PyStr(sd), PyStr(exe)>>)
        vers == float(vHIPS)
    IN  IF kBDB = WindowsError THEN Continue("")
        ELSE IF p2hipsinst = WindowsError THEN Continue("")
        ELSE IF batch_engine = TypeError THEN Propagate("TypeError", "")
        ELSE IF ~os_path_exists(files, batch_engine) THEN Continue(batch_engine.s)
        ELSE IF vers = ValueError THEN Propagate("ValueError", batch_engine.s)
        ELSE AppendEntry(batch_engine, vers)

\* lines 78-81: what caris_command_finder returns
caris_command_finder_return(all, found) ==
    IF all THEN PyList(found)
    ELSE IF Truthy(PyList(found)) THEN found[1]
    ELSE PyTuple(<<PyStr(""), PyStr("")>>)

\* lines 104-106
get_hips_command_from_version_result(result) ==
    LET batch_engine == result.items[1]
        vers == result.items[2]
    IN  IF ~Truthy(batch_engine)
        THEN Raised("Exception",
                    "No Batch Engine found...is CARIS HIPS and SIPS " \o str(vers)
                        \o " installed?")
        ELSE Returned(batch_engine)

\* lines 157-159
command_finder_hips_result(found) ==
    IF ~Truthy(found) \/ ~Truthy(found.items[1])
    THEN Raised("Exception", "No Batch Engine found...is CARIS HIPS and SIPS installed?")
    ELSE Returned(found)

\* lines 189-191
command_finder_base_result(found) ==
    IF ~Truthy(found) \/ ~Truthy(found.items[1])
    THEN Raised("Exception", "No Batch Engine found...is CARIS BASE Editor installed?")
    ELSE Returned(found)

(***************************************************************************)
(* The environments a call is made in.  A call reads only the subtree of   *)
(* its application key, so only that subtree is populated: at most         *)
(* MaxInstalled of the candidate versions have a key, and each such key is *)
(* closed ("denied"), lacks install_dir ("novalue"), names a directory     *)
(* without the executable ("nofile"), names one that has it ("installed"), *)
(* or holds install_dir as a REG_DWORD ("dword") or as a REG_BINARY        *)
(* ("binary").                                                             *)
(***************************************************************************)
NodeKinds == {"denied", "novalue", "nofile", "installed", "dword", "binary"}

InstallDir(app, v) == "C:\\Program Files\\CARIS\\" \o app \o "\\" \o v

Node(app, v, kind) ==
    [denied |-> kind = "denied",
     has_install_dir |-> kind \in {"nofile", "installed", "dword", "binary"},
     install_dir |-> CASE kind \in {"nofile", "installed"} -> PyStr(InstallDir(app, v))
                       [] kind = "dword" -> PyInt(5)
                       [] kind = "binary" -> PyBytes(InstallDir(app, v))
                       [] OTHER -> None]

RegistryOf(app, kinds) ==
    [p \in {KeyPath(app, v) : v \in DOMAIN kinds} |->
        LET v == CHOOSE w \in DOMAIN kinds : KeyPath(app, w) = p
        IN  Node(app, v, kinds[v])]

FilesOf(app, kinds) ==
    {JoinNames(<<InstallDir(app, v), "bin", "carisbatch.exe">>) :
        v \in {w \in DOMAIN kinds : kinds[w] = "installed"}}

\* the version strings passed directly to caris_command_finder
GenericVersions == {"10.2", "11.4", "11.4.1"}

RECURSIVE SeqsUpTo(_, _)
\* the sequences over S of length at most n
SeqsUpTo(S, n) ==
    IF n = 0 THEN {<<>>}
    ELSE LET shorter == SeqsUpTo(S, n - 1)
         IN  shorter \cup {Append(q, x) : q \in {r \in shorter : Len(r) = n - 1}, x \in S}

Range(q) == {q[i] : i \in 1..Len(q)}

\* the environment is drawn when the call is made
DrawEnvironment(app, candidates) ==
    \/ /\ store_up' = FALSE
       /\ reg' = << >>
       /\ fs' = {}
    \/ \E S \in SUBSET candidates :
          /\ Cardinality(S) <= MaxInstalled
          /\ \E kinds \in [S -> NodeKinds] :
                /\ store_up' = TRUE
                /\ reg' = RegistryOf(app, kinds)
                /\ fs' = FilesOf(app, kinds)

\* entering caris_command_finder with these arguments
Enter(name, a, exe, accepted, app, all, sd) ==
    /\ pc = "idle"
    /\ pc' = "connect"
    /\ op' = name
    /\ arg' = a
    /\ exe_name' = exe
    /\ accepted_versions' = accepted
    /\ app_key' = app
    /\ get_all_versions' = all
    /\ subdir' = sd
    /\ UNCHANGED <<versions, idx, ret, outcome, probed, seen>>

Init ==
    /\ store_up = FALSE
    /\ reg = << >>
    /\ fs = {}
    /\ pc = "idle"
    /\ op = ""
    /\ arg = None
    /\ exe_name = ""
    /\ accepted_versions = << >>
    /\ app_key = ""
    /\ get_all_versions = FALSE
    /\ subdir = ""
    /\ versions = << >>
    /\ idx = 1
    /\ ret = None
    /\ outcome = NoOutcome
    /\ probed = << >>
    /\ seen = {}

(***************************************************************************)
(* The public functions are called.                                        *)
(***************************************************************************)
\* caris_command_finder(exe_name, accepted_versions, app_key, get_all_versions), line 9
call_caris_command_finder ==
    \E accepted \in SeqsUpTo(GenericVersions, MaxLen), all \in BOOLEAN,
       app \in {HIPS_NAME, BASE_EDITOR_NAME} :
        /\ Enter("caris_command_finder", None, "carisbatch.exe", accepted, app, all, "bin")
        /\ DrawEnvironment(app, GenericVersions)

\* the values a caller passes to get_hips_command_from_version: a float or a str
RequestedVersions ==
    {PyFloat(114, 0 - 1), PyFloat(12, 0), PyStr("10.2"), PyStr("11.4"),
     PyStr("11.4.1"), PyStr("11.x")}

\* get_hips_command_from_version(vers), line 103
call_get_hips_command_from_version ==
    \E vers \in RequestedVersions :
        /\ Enter("get_hips_command_from_version", vers, "carisbatch.exe",
                 <<str(vers)>>, "HIPS", FALSE, "bin")
        /\ DrawEnvironment("HIPS", GenericVersions \cup {str(vers)})

\* get_all_hips_versions(), line 124: command_finder_hips(True)
call_get_all_hips_versions ==
    /\ Enter("get_all_hips_versions", PyStr("True"), "carisbatch.exe",
             HIPS_VERSIONS, HIPS_NAME, TRUE, "bin")
    /\ DrawEnvironment(HIPS_NAME, Range(HIPS_VERSIONS))

\* command_finder_hips(get_all_versions), line 153
call_command_finder_hips ==
    \E all \in BOOLEAN :
        /\ Enter("command_finder_hips", PyStr(IF all THEN "True" ELSE "False"),
                 "carisbatch.exe", HIPS_VERSIONS, HIPS_NAME, all, "bin")
        /\ DrawEnvironment(HIPS_NAME, Range(HIPS_VERSIONS))

\* command_finder_base(get_all_versions), line 187
call_command_finder_base ==
    \E all \in BOOLEAN :
        /\ Enter("command_finder_base", PyStr(IF all THEN "True" ELSE "False"),
                 "carisbatch.exe", BASE_EDITOR_VERSIONS, BASE_EDITOR_NAME, all, "bin")
        /\ DrawEnvironment(BASE_EDITOR_NAME, Range(BASE_EDITOR_VERSIONS))

(***************************************************************************)
(* caris_command_finder, lines 61-81.                                      *)
(***************************************************************************)
\* lines 61-62: versions = [], regHKLM = ConnectRegistry(...); its error is not caught
connect_registry ==
    /\ pc = "connect"
    /\ versions' = << >>
    /\ idx' = 1
    /\ probed' = << >>
    /\ seen' = {}
    /\ IF ConnectRegistry(store_up).type = "HKEY"
       THEN /\ pc' = IF Len(accepted_versions) = 0 THEN "return" ELSE "loop"
            /\ outcome' = outcome
       ELSE /\ pc' = "done"
            /\ outcome' = Raised("OSError", "")
    /\ UNCHANGED <<env, op, arg, frame, ret>>

\* lines 63-76: one iteration of the loop, for accepted_versions[idx]
loop_iteration ==
    /\ pc = "loop"
    /\ LET vHIPS == accepted_versions[idx]
           step == LoopBody(reg, fs, exe_name, app_key, vHIPS, subdir)
           found == IF step.kind = "append" THEN Append(versions, step.entry) ELSE versions
           stop == step.kind = "append" /\ ~get_all_versions
       IN  /\ probed' = Append(probed, vHIPS)
           /\ seen' = IF step.path \in fs THEN seen \cup {step.path} ELSE seen
           /\ versions' = found
           /\ idx' = idx + 1
           /\ IF step.kind = "raise"
              THEN /\ pc' = "done"
                   /\ outcome' = Raised(step.exc, "")
              ELSE /\ pc' = IF stop \/ idx = Len(accepted_versions) THEN "return" ELSE "loop"
                   /\ outcome' = outcome
    /\ UNCHANGED <<env, op, arg, frame, ret>>

\* lines 78-81: the return; a direct call ends here, a wrapper goes on
finder_return ==
    /\ pc = "return"
    /\ ret' = caris_command_finder_return(get_all_versions, versions)
    /\ IF op = "caris_command_finder"
       THEN /\ pc' = "done"
            /\ outcome' = Returned(caris_command_finder_return(get_all_versions, versions))
       ELSE /\ pc' = "wrapper"
            /\ outcome' = outcome
    /\ UNCHANGED <<env, op, arg, frame, versions, idx, probed, seen>>

(***************************************************************************)
(* The wrappers, after caris_command_finder has returned.                  *)
(***************************************************************************)
\* lines 104-106
get_hips_command_from_version_check ==
    /\ pc = "wrapper"
    /\ op = "get_hips_command_from_version"
    /\ outcome' = get_hips_command_from_version_result(ret)
    /\ pc' = "done"
    /\ UNCHANGED <<env, op, arg, frame, versions, idx, ret, probed, seen>>

\* lines 157-159, and line 125 which hands the same result on
command_finder_hips_check ==
    /\ pc = "wrapper"
    /\ op \in {"command_finder_hips", "get_all_hips_versions"}
    /\ outcome' = command_finder_hips_result(ret)
    /\ pc' = "done"
    /\ UNCHANGED <<env, op, arg, frame, versions, idx, ret, probed, seen>>

\* lines 189-191
command_finder_base_check ==
    /\ pc = "wrapper"
    /\ op = "command_finder_base"
    /\ outcome' = command_finder_base_result(ret)
    /\ pc' = "done"
    /\ UNCHANGED <<env, op, arg, frame, versions, idx, ret, probed, seen>>

(***************************************************************************)
(* The file system changes under the call: an executable under a           *)
(* registered install directory appears or disappears between two probes.  *)
(***************************************************************************)
file_system_changes ==
    /\ pc \in {"connect", "loop", "return", "wrapper"}
    /\ \E p \in DOMAIN reg :
          /\ reg[p].has_install_dir
          /\ reg[p].install_dir.type = "str"
          /\ LET f == JoinNames(<<reg[p].install_dir.s, "bin", "carisbatch.exe">>)
             IN  fs' = IF f \in fs THEN fs \ {f} ELSE fs \cup {f}
    /\ UNCHANGED <<store_up, reg, pc, op, arg, frame, versions, idx, ret, outcome,
                   probed, seen>>

Next ==
    \/ call_caris_command_finder
    \/ call_get_hips_command_from_version
    \/ call_get_all_hips_versions
    \/ call_command_finder_hips
    \/ call_command_finder_base
    \/ connect_registry
    \/ loop_iteration
    \/ finder_return
    \/ get_hips_command_from_version_check
    \/ command_finder_hips_check
    \/ command_finder_base_check

\* every call runs against a registry and a file system that stay as they are
Spec == Init /\ [][Next]_vars

NextRace == Next \/ file_system_changes

\* the file system may change while a call runs
SpecRace == Init /\ [][NextRace]_vars

(***************************************************************************)
(* What the properties speak of.                                           *)
(***************************************************************************)
\* version v resolves: its "Environment Variables" key opens, install_dir is
\* readable and install_dir/sd/exe is on disk
Resolves(app, v, sd, exe) ==
    LET p == KeyPath(app, v)
    IN  /\ p \in DOMAIN reg
        /\ ~reg[p].denied
        /\ reg[p].has_install_dir
        /\ reg[p].install_dir.type = "str"
        /\ JoinNames(<<reg[p].install_dir.s, sd, exe>>) \in fs

Resolvable(v) == Resolves(app_key, v, subdir, exe_name)

\* the positions of accepted_versions that resolve
ResolvablePositions ==
    {i \in 1..Len(accepted_versions) : Resolvable(accepted_versions[i])}

\* join(install_dir, subdir, exe_name) of a version whose install_dir is readable
PathOf(v) == JoinNames(<<reg[KeyPath(app_key, v)].install_dir.s, subdir, exe_name>>)

\* the entry of a version: its path and its number
EntryOf(v) == PyList(<<PyStr(PathOf(v)), float(v)>>)

RECURSIVE EntriesUpTo(_)
\* the entries of the resolvable versions among the first n, in their order
EntriesUpTo(n) ==
    IF n = 0 THEN << >>
    ELSE IF Resolvable(accepted_versions[n])
    THEN Append(EntriesUpTo(n - 1), EntryOf(accepted_versions[n]))
    ELSE EntriesUpTo(n - 1)

Placeholder == PyTuple(<<PyStr(""), PyStr("")>>)

NoDuplicates(q) == \A i, j \in 1..Len(q) : i # j => q[i] # q[j]

Earliest(S) == CHOOSE i \in S : \A j \in S : i <= j

IsFloatLiteral(v) == float(v) # ValueError

\* the probe of version v raises what `except WindowsError` does not catch:
\* install_dir is read and is no str (os.path.join raises TypeError), or v
\* resolves and is no float literal (float raises ValueError)
ProbeRaises(v) ==
    LET p == KeyPath(app_key, v)
    IN  /\ p \in DOMAIN reg
        /\ ~reg[p].denied
        /\ reg[p].has_install_dir
        /\ \/ reg[p].install_dir.type # "str"
           \/ Resolvable(v) /\ ~IsFloatLiteral(v)

\* the loop comes to a version whose probe raises: in first-match mode no
\* earlier version resolves
LoopRaises ==
    \E i \in 1..Len(accepted_versions) :
       /\ ProbeRaises(accepted_versions[i])
       /\ get_all_versions \/ \A k \in 1..(i - 1) : k \notin ResolvablePositions

\* the call of the public function `name` has ended
Finished(name) == pc = "done" /\ op = name

\* entry j of accepted_versions is what the call reports
Reported(j) ==
    /\ outcome.kind = "return"
    /\ IF get_all_versions
       THEN \E n \in 1..Len(outcome.value.items) :
               outcome.value.items[n] = EntryOf(accepted_versions[j])
       ELSE outcome.value = EntryOf(accepted_versions[j])

\* the paths in what the call returned
ReturnedPaths ==
    IF pc # "done" \/ outcome.kind # "return" THEN {}
    ELSE IF op = "get_hips_command_from_version" THEN {outcome.value.s}
    ELSE IF get_all_versions
    THEN {outcome.value.items[n].items[1].s : n \in 1..Len(outcome.value.items)}
    ELSE {outcome.value.items[1].s}

(***************************************************************************)
(* C1.  In first-match mode caris_command_finder returns the entry of the  *)
(* resolvable version that comes earliest in accepted_versions, whatever   *)
(* the numeric order of the versions.                                      *)
(***************************************************************************)
C1_FirstMatchIsEarliestResolvable ==
    (/\ Finished("caris_command_finder")
     /\ ~get_all_versions
     /\ ResolvablePositions # {})
    => outcome = Returned(EntryOf(accepted_versions[Earliest(ResolvablePositions)]))

\* C1 where no probe the loop comes to raises: there the entry of the
\* earliest resolvable version is returned
C1_WhereNoProbeRaises ==
    (/\ Finished("caris_command_finder")
     /\ ~get_all_versions
     /\ ResolvablePositions # {}
     /\ ~LoopRaises)
    => outcome = Returned(EntryOf(accepted_versions[Earliest(ResolvablePositions)]))

C1_WhereNoProbeRaises_Witness ==
    /\ Finished("caris_command_finder")
    /\ ~get_all_versions
    /\ accepted_versions = <<"10.2", "11.4">>
    /\ ResolvablePositions = {1, 2}
    /\ outcome.kind = "return"
    /\ outcome.value.items[2] = PyFloat(102, 0 - 1)

(***************************************************************************)
(* C2.  In collect-all mode caris_command_finder returns the entries of    *)
(* exactly the resolvable versions of accepted_versions, in their order in *)
(* accepted_versions, none left out, none twice (accepted_versions naming  *)
(* no version twice).                                                      *)
(***************************************************************************)
C2_CollectAllIsResolvableSubsequence ==
    (/\ Finished("caris_command_finder")
     /\ store_up
     /\ get_all_versions)
    => /\ outcome = Returned(PyList(EntriesUpTo(Len(accepted_versions))))
       /\ NoDuplicates(accepted_versions) => NoDuplicates(outcome.value.items)

\* C2 where no probe raises
C2_WhereNoProbeRaises ==
    (/\ Finished("caris_command_finder")
     /\ store_up
     /\ get_all_versions
     /\ ~LoopRaises)
    => /\ outcome = Returned(PyList(EntriesUpTo(Len(accepted_versions))))
       /\ NoDuplicates(accepted_versions) => NoDuplicates(outcome.value.items)

C2_WhereNoProbeRaises_Witness ==
    /\ Finished("caris_command_finder")
    /\ get_all_versions
    /\ accepted_versions = <<"10.2", "11.4">>
    /\ ResolvablePositions = {1, 2}
    /\ outcome.kind = "return"
    /\ Len(outcome.value.items) = 2

(***************************************************************************)
(* C3.  When accepted_versions is not empty and none of its versions       *)
(* resolves, caris_command_finder returns ('', '') in first-match mode and *)
(* [] in collect-all mode, and raises nothing.                             *)
(***************************************************************************)
C3_NothingResolvesGivesPlaceholder ==
    (/\ Finished("caris_command_finder")
     /\ store_up
     /\ Len(accepted_versions) > 0
     /\ ResolvablePositions = {})
    => outcome = Returned(IF get_all_versions THEN PyList(<< >>) ELSE Placeholder)

\* C3 where no probe raises: every install_dir that is read is a str
C3_WhereNoProbeRaises ==
    (/\ Finished("caris_command_finder")
     /\ store_up
     /\ Len(accepted_versions) > 0
     /\ ResolvablePositions = {}
     /\ ~LoopRaises)
    => outcome = Returned(IF get_all_versions THEN PyList(<< >>) ELSE Placeholder)

\* two versions, both registered, neither resolving: one names a directory
\* without the executable, the other lacks install_dir
C3_WhereNoProbeRaises_Witness ==
    /\ Finished("caris_command_finder")
    /\ store_up
    /\ ~get_all_versions
    /\ Len(accepted_versions) = 2
    /\ ResolvablePositions = {}
    /\ \E i, j \in 1..2 :
          /\ KeyPath(app_key, accepted_versions[i]) \in DOMAIN reg
          /\ reg[KeyPath(app_key, accepted_versions[i])].has_install_dir
          /\ KeyPath(app_key, accepted_versions[j]) \in DOMAIN reg
          /\ ~reg[KeyPath(app_key, accepted_versions[j])].has_install_dir
    /\ outcome = Returned(Placeholder)

(***************************************************************************)
(* C4.  command_finder_hips, command_finder_base and get_all_hips_versions *)
(* raise the "is <product> installed?" error exactly when no version of    *)
(* their hard-coded list resolves, which is when the resolver's result is  *)
(* empty; otherwise they return the resolver's result unchanged.           *)
(***************************************************************************)
C4_WrappersRaiseIffNothingResolves ==
    (/\ pc = "done"
     /\ op \in {"command_finder_hips", "command_finder_base", "get_all_hips_versions"}
     /\ store_up)
    => LET hips == op # "command_finder_base"
           name == IF hips THEN HIPS_NAME ELSE BASE_EDITOR_NAME
           list == IF hips THEN HIPS_VERSIONS ELSE BASE_EDITOR_VERSIONS
           none == \A i \in 1..Len(list) : ~Resolves(name, list[i], "bin", "carisbatch.exe")
           empty == ret \in {Placeholder, PyList(<< >>)}
       IN  /\ none <=> outcome.kind = "raise"
           /\ empty <=> outcome.kind = "raise"
           /\ outcome.kind = "raise" =>
                 /\ outcome.exc = "Exception"
                 /\ outcome.msg =
                      IF hips
                      THEN "No Batch Engine found...is CARIS HIPS and SIPS installed?"
                      ELSE "No Batch Engine found...is CARIS BASE Editor installed?"
           /\ outcome.kind # "raise" => outcome = Returned(ret)

\* C4 where no probe raises
C4_WhereNoProbeRaises ==
    (/\ pc = "done"
     /\ op \in {"command_finder_hips", "command_finder_base", "get_all_hips_versions"}
     /\ store_up
     /\ ~LoopRaises)
    => LET hips == op # "command_finder_base"
           name == IF hips THEN HIPS_NAME ELSE BASE_EDITOR_NAME
           list == IF hips THEN HIPS_VERSIONS ELSE BASE_EDITOR_VERSIONS
           none == \A i \in 1..Len(list) : ~Resolves(name, list[i], "bin", "carisbatch.exe")
           empty == ret \in {Placeholder, PyList(<< >>)}
       IN  /\ none <=> outcome.kind = "raise"
           /\ empty <=> outcome.kind = "raise"
           /\ outcome.kind = "raise" =>
                 /\ outcome.exc = "Exception"
                 /\ outcome.msg =
                      IF hips
                      THEN "No Batch Engine found...is CARIS HIPS and SIPS installed?"
                      ELSE "No Batch Engine found...is CARIS BASE Editor installed?"
           /\ outcome.kind # "raise" => outcome = Returned(ret)

\* get_all_hips_versions raising although two versions are registered
C4_WhereNoProbeRaises_Witness ==
    /\ Finished("get_all_hips_versions")
    /\ store_up
    /\ Cardinality(DOMAIN reg) = 2
    /\ outcome.kind = "raise"
    /\ outcome.exc = "Exception"

(***************************************************************************)
(* C5.  get_hips_command_from_version(vers) returns the path of the        *)
(* requested version when it resolves, and otherwise raises an error whose *)
(* message names the version that was requested.                           *)
(***************************************************************************)
C5_ErrorNamesRequestedVersion ==
    (/\ Finished("get_hips_command_from_version")
     /\ store_up)
    => IF Resolves("HIPS", str(arg), "bin", "carisbatch.exe")
       THEN IsFloatLiteral(str(arg)) => outcome = Returned(PyStr(PathOf(str(arg))))
       ELSE outcome = Raised("Exception",
                             "No Batch Engine found...is CARIS HIPS and SIPS "
                                 \o str(arg) \o " installed?")

\* C5 as the code has it: the message is formatted from the second element
\* of the placeholder pair, the empty string, whatever version was requested
C5_MessageOmitsVersion ==
    (/\ Finished("get_hips_command_from_version")
     /\ store_up
     /\ ~Resolves("HIPS", str(arg), "bin", "carisbatch.exe")
     /\ ~LoopRaises)
    => outcome = Raised("Exception",
                        "No Batch Engine found...is CARIS HIPS and SIPS  installed?")

(***************************************************************************)
(* C6.  A version that fails to resolve (missing key, missing install_dir, *)
(* access denied, missing executable) neither reaches the caller as an     *)
(* error nor ends the search: every later version is still probed and, if  *)
(* it resolves, reported (in first-match mode when no earlier version      *)
(* resolved).                                                              *)
(***************************************************************************)
C6_FailedProbeDoesNotEndSearch ==
    (/\ Finished("caris_command_finder")
     /\ store_up)
    => \A i \in 1..Len(accepted_versions) :
          ~Resolvable(accepted_versions[i]) =>
             /\ outcome.exc \notin {"WindowsError", "OSError"}
             /\ \A j \in (i + 1)..Len(accepted_versions) :
                   (get_all_versions \/ \A k \in 1..(j - 1) : k \notin ResolvablePositions)
                   => /\ Len(probed) >= j
                      /\ probed[j] = accepted_versions[j]
                      /\ Resolvable(accepted_versions[j]) => Reported(j)

\* C6 where no probe raises
C6_WhereNoProbeRaises ==
    (/\ Finished("caris_command_finder")
     /\ store_up
     /\ ~LoopRaises)
    => \A i \in 1..Len(accepted_versions) :
          ~Resolvable(accepted_versions[i]) =>
             /\ outcome.exc \notin {"WindowsError", "OSError"}
             /\ \A j \in (i + 1)..Len(accepted_versions) :
                   (get_all_versions \/ \A k \in 1..(j - 1) : k \notin ResolvablePositions)
                   => /\ Len(probed) >= j
                      /\ probed[j] = accepted_versions[j]
                      /\ Resolvable(accepted_versions[j]) => Reported(j)

C6_WhereNoProbeRaises_Witness ==
    /\ Finished("caris_command_finder")
    /\ ~get_all_versions
    /\ Len(accepted_versions) = 2
    /\ KeyPath(app_key, accepted_versions[1]) \in DOMAIN reg
    /\ reg[KeyPath(app_key, accepted_versions[1])].denied
    /\ Resolvable(accepted_versions[2])
    /\ Reported(2)

(***************************************************************************)
(* C7.  When the connection to the registry fails, the caller of           *)
(* caris_command_finder and of every wrapper gets that failure: no version *)
(* is probed, and nothing is returned or raised in its place.              *)
(***************************************************************************)
C7_ConnectFailurePropagates ==
    (pc = "done" /\ ~store_up)
    => /\ outcome = Raised("OSError", "")
       /\ probed = << >>

C7_Witness ==
    /\ Finished("get_hips_command_from_version")
    /\ ~store_up
    /\ outcome.kind = "raise"

(***************************************************************************)
(* C8.  Every non-empty path a call returns is join(install_dir, subdir,   *)
(* exe_name) of a version in accepted_versions and was on disk when the    *)
(* call checked it, though the file system changes between probes.         *)
(***************************************************************************)
C8_ReturnedPathWasSeenOnDisk ==
    \A p \in ReturnedPaths \ {""} :
       /\ p \in seen
       /\ \E i \in 1..Len(accepted_versions) :
             /\ KeyPath(app_key, accepted_versions[i]) \in DOMAIN reg
             /\ reg[KeyPath(app_key, accepted_versions[i])].has_install_dir
             /\ reg[KeyPath(app_key, accepted_versions[i])].install_dir.type = "str"
             /\ p = PathOf(accepted_versions[i])

\* first-match mode returns a path that was on disk when probed and has
\* gone before the call ends
C8_Witness ==
    /\ Finished("command_finder_hips")
    /\ ~get_all_versions
    /\ \E p \in ReturnedPaths : p # "" /\ p \notin fs

(***************************************************************************)
(* C9.  HIPS_VERSIONS (eight entries, 12.0 down to 10.2) and               *)
(* BASE_EDITOR_VERSIONS (nine entries, 6.1 down to 4.2) descend strictly   *)
(* in numeric version, so command_finder_hips() and command_finder_base()  *)
(* in first-match mode return the numerically greatest resolvable version, *)
(* with the number its string writes.                                      *)
(***************************************************************************)
StrictlyDescending(list) ==
    \A i \in 1..(Len(list) - 1) : FloatLess(float(list[i + 1]), float(list[i]))

C9_NewestResolvableIsReturned ==
    /\ Len(HIPS_VERSIONS) = 8
    /\ HIPS_VERSIONS[1] = "12.0" /\ HIPS_VERSIONS[8] = "10.2"
    /\ StrictlyDescending(HIPS_VERSIONS)
    /\ Len(BASE_EDITOR_VERSIONS) = 9
    /\ BASE_EDITOR_VERSIONS[1] = "6.1" /\ BASE_EDITOR_VERSIONS[9] = "4.2"
    /\ StrictlyDescending(BASE_EDITOR_VERSIONS)
    /\ (/\ pc = "done"
        /\ op \in {"command_finder_hips", "command_finder_base"}
        /\ ~get_all_versions
        /\ store_up
        /\ ResolvablePositions # {})
       => \E i \in ResolvablePositions :
             /\ outcome = Returned(EntryOf(accepted_versions[i]))
             /\ \A j \in ResolvablePositions :
                   ~FloatLess(float(accepted_versions[i]), float(accepted_versions[j]))

\* C9 for the calls that return: the lists are as described and what is
\* returned is the greatest resolvable version
C9_WhenItReturns ==
    /\ Len(HIPS_VERSIONS) = 8
    /\ HIPS_VERSIONS[1] = "12.0" /\ HIPS_VERSIONS[8] = "10.2"
    /\ StrictlyDescending(HIPS_VERSIONS)
    /\ Len(BASE_EDITOR_VERSIONS) = 9
    /\ BASE_EDITOR_VERSIONS[1] = "6.1" /\ BASE_EDITOR_VERSIONS[9] = "4.2"
    /\ StrictlyDescending(BASE_EDITOR_VERSIONS)
    /\ (/\ pc = "done"
        /\ op \in {"command_finder_hips", "command_finder_base"}
        /\ ~get_all_versions
        /\ outcome.kind = "return")
       => \E i \in ResolvablePositions :
             /\ outcome.value = EntryOf(accepted_versions[i])
             /\ \A j \in ResolvablePositions :
                   ~FloatLess(outcome.value.items[2], float(accepted_versions[j]))

\* 11.4 and 10.3 both resolve and command_finder_hips() returns 11.4
C9_WhenItReturns_Witness ==
    /\ Finished("command_finder_hips")
    /\ ~get_all_versions
    /\ ResolvablePositions = {2, 7}
    /\ outcome.kind = "return"
    /\ outcome.value.items[2] = PyFloat(114, 0 - 1)

(***************************************************************************)
(* C10.  Once the registry is connected, caris_command_finder completes    *)
(* normally whatever the form of the version strings: a registered version *)
(* is recorded or skipped, and no error of the version-to-number           *)
(* conversion escapes it, called directly or through                       *)
(* get_hips_command_from_version.                                          *)
(***************************************************************************)
C10_ConversionErrorNeverEscapes ==
    (pc = "done" /\ store_up)
    => /\ outcome.exc # "ValueError"
       /\ op = "caris_command_finder" => outcome.kind = "return"

\* C10 as the code has it: a ValueError escapes exactly when the loop comes
\* to a resolvable version that is no float literal
C10_ValueErrorIffResolvableNonLiteral ==
    pc = "done"
    => (outcome.exc = "ValueError"
        <=> \E i \in 1..Len(probed) :
               /\ Resolvable(probed[i])
               /\ ~IsFloatLiteral(probed[i])
               /\ i = Len(probed))

\* and a TypeError escapes exactly when the loop comes to a version whose
\* install_dir is no str
C10_TypeErrorIffInstallDirNotStr ==
    pc = "done"
    => (outcome.exc = "TypeError"
        <=> /\ Len(probed) > 0
            /\ ProbeRaises(probed[Len(probed)])
            /\ reg[KeyPath(app_key, probed[Len(probed)])].install_dir.type # "str")

\* these two are the only exceptions of the loop
C10_LoopRaisesIffProbeRaises ==
    (pc = "done" /\ store_up)
    => (outcome.exc \in {"TypeError", "ValueError"} <=> LoopRaises)

====
